---- MODULE Spec2Model ----
(***************************************************************************)
(* Model of the HTTP socket-filter tracer (pkg/ebpf/httpfltr/httpfltr.go)  *)
(* and of KernelVersion (pkg/ebpf/common).                                 *)
(*                                                                         *)
(* Strings and byte arrays are sequences of byte values (0..255); the Go   *)
(* empty string and a nil []byte converted to string are both <<>>.        *)
(***************************************************************************)
EXTENDS Integers, Sequences, FiniteSets, TLC

VARIABLES
    SystemWide,   \* p.Cfg.SystemWide
    activePids,   \* the package-level LRU cache, most recently used first
    procs,        \* the live process table: what /proc/<pid>/comm would give
    deadPids,     \* p.bpfObjects.DeadPids, the kernel-side map of exited pids
    th,           \* per goroutine: position in toRequestTrace and its locals
    useOrder,     \* history: pids in order of their most recent resolve
    returned,     \* history: names serviceName has returned, per pid
    last          \* the last call of a function without shared state

vars == <<SystemWide, activePids, procs, deadPids, th, useOrder, returned, last>>

---------------------------------------------------------------------------
(* Program constants *)

\* lru.New[uint32, string](64)
CacheSize == 64
\* var name [16]uint8
CommLen == 16
\* net.IPv6len, the size of S_addr and D_addr
IPv6len == 16
\* pid uint32
PidSize == 4
\* strings.Index(buf, " ")
SP == 32
\* bytes.IndexByte(chars[:], 0)
NUL == 0
\* the line feed that ends /proc/<pid>/comm, removed by strings.TrimSpace
NL == 10
\* len(values), values [2]int
NValues == 2

(* Bounds of the model *)

\* capacity of BPFHTTPInfo.Buf
BufLen == 5
\* capacity of syscall.Utsname.Release
RelLen == 5
\* pids of the sequential and of the concurrent specification: 1..NPids
NPids == 2
\* the cache specification resolves pids 1..WarmLen in order before it
\* chooses freely
WarmLen == 62
\* fresh pids the cache specification may resolve after the warm-up
NFresh == 4

---------------------------------------------------------------------------
(* Byte-string helpers *)

Pad(s, n) == [i \in 1..n |-> IF i <= Len(s) THEN s[i] ELSE NUL]

Take(s, n) == SubSeq(s, 1, n)

\* The value of a panic: a slice or an index out of range.
Panic == <<-1>>

\* s[lo:hi] of Go, 0-based, panicking unless 0 <= lo <= hi <= len(s)
GoSlice(s, lo, hi) ==
    IF 0 <= lo /\ lo <= hi /\ hi <= Len(s)
    THEN SubSeq(s, lo + 1, hi)
    ELSE Panic

\* strings.Index(s, string(c)) and bytes.IndexByte(s, c): 0-based, -1 if absent
IndexByte(s, c) ==
    IF \E i \in 1..Len(s) : s[i] = c
    THEN (CHOOSE i \in 1..Len(s) : s[i] = c /\ \A j \in 1..(i - 1) : s[j] # c) - 1
    ELSE -1

IsSpace(c) == c \in {9, 10, 11, 12, 13, 32}

\* strings.TrimSpace
TrimSpace(s) ==
    IF \A i \in 1..Len(s) : IsSpace(s[i])
    THEN << >>
    ELSE LET lo == CHOOSE i \in 1..Len(s) :
                       ~IsSpace(s[i]) /\ \A j \in 1..(i - 1) : IsSpace(s[j])
             hi == CHOOSE i \in 1..Len(s) :
                       ~IsSpace(s[i]) /\ \A j \in (i + 1)..Len(s) : IsSpace(s[j])
         IN  SubSeq(s, lo, hi)

RECURSIVE LittleEndian(_)
LittleEndian(b) == IF b = << >> THEN 0 ELSE b[1] + 256 * LittleEndian(Tail(b))

RECURSIVE Pow256(_)
Pow256(k) == IF k = 0 THEN 1 ELSE 256 * Pow256(k - 1)

PutLittleEndian(n, k) == [i \in 1..k |-> (n \div Pow256(i - 1)) % 256]

---------------------------------------------------------------------------
(* BPFHTTPInfo.url and BPFHTTPInfo.method *)

url_NoOffset(Buf) ==
    LET buf   == Buf
        space == IndexByte(buf, SP)
    IN  IF space < 0 THEN << >>
        ELSE LET rest      == GoSlice(buf, space + 1, Len(buf))
                 nextSpace == IF rest = Panic THEN -1 ELSE IndexByte(rest, SP)
             IN  IF rest = Panic THEN Panic
                 ELSE IF nextSpace < 0 THEN << >>
                 ELSE GoSlice(buf, space + 1, nextSpace)

url(Buf) ==
    LET buf   == Buf
        space == IndexByte(buf, SP)
    IN  IF space < 0 THEN << >>
        ELSE LET rest      == GoSlice(buf, space + 1, Len(buf))
                 nextSpace == IF rest = Panic THEN -1 ELSE IndexByte(rest, SP)
             IN  IF rest = Panic THEN Panic
                 ELSE IF nextSpace < 0 THEN << >>
                 ELSE GoSlice(buf, space + 1, nextSpace + space + 1)

method(Buf) ==
    LET buf   == Buf
        space == IndexByte(buf, SP)
    IN  IF space < 0 THEN << >> ELSE GoSlice(buf, 0, space)

\* net.IP.String() of the 16 copied bytes: never empty. The textual form
\* (dotted decimal or colon-hex) is not rendered; the bytes are tagged.
IPString(ip) == <<-4>> \o ip

hostInfo(event) ==
    LET src == Pad(event.S_addr, IPv6len)
        dst == Pad(event.D_addr, IPv6len)
    IN  [source |-> IPString(src), target |-> IPString(dst)]

cstr(chars) ==
    LET addrLen0 == IndexByte(chars, NUL)
        addrLen  == IF addrLen0 < 0 THEN Len(chars) ELSE addrLen0
    IN  GoSlice(chars, 0, addrLen)

---------------------------------------------------------------------------
(* KernelVersion *)

IsDigit(c) == 48 <= c /\ c <= 57

\* One run of the loop over uname.Release from index i (1-based) on.
\* st.scanned is the number of characters the loop has looked at, st.oob
\* records a write to values[vi] with vi out of range (a panic in Go).
RECURSIVE KVLoop_NoBreak(_, _, _)
KVLoop_NoBreak(rel, i, st) ==
    IF i > Len(rel) \/ st.oob THEN st
    ELSE LET c == rel[i] IN
         IF IsDigit(c)
         THEN KVLoop_NoBreak(rel, i + 1,
                  [st EXCEPT !.value = (st.value * 10) + (c - 48), !.scanned = i])
         ELSE IF st.vi >= NValues
         THEN [st EXCEPT !.oob = TRUE, !.scanned = i]
         ELSE KVLoop_NoBreak(rel, i + 1,
                  [st EXCEPT !.values[st.vi + 1] = st.value,
                             !.vi = st.vi + 1, !.value = 0, !.scanned = i])

RECURSIVE KVLoop(_, _, _)
KVLoop(rel, i, st) ==
    IF i > Len(rel) THEN st
    ELSE LET c == rel[i] IN
         IF IsDigit(c)
         THEN KVLoop(rel, i + 1,
                  [st EXCEPT !.value = (st.value * 10) + (c - 48), !.scanned = i])
         ELSE IF st.vi >= NValues
         THEN [st EXCEPT !.oob = TRUE, !.scanned = i]
         ELSE LET w == [st EXCEPT !.values[st.vi + 1] = st.value,
                                  !.vi = st.vi + 1, !.scanned = i]
              IN  IF w.vi >= NValues
                  THEN w
                  ELSE KVLoop(rel, i + 1, [w EXCEPT !.value = 0])

KVStart == [values |-> [k \in 1..NValues |-> 0], value |-> 0, vi |-> 0,
            scanned |-> 0, oob |-> FALSE]

KernelVersion(unameOk, release) ==
    IF ~unameOk
    THEN [major |-> 0, minor |-> 0, scanned |-> 0, oob |-> FALSE]
    ELSE LET st == KVLoop(release, 1, KVStart)
         IN  [major |-> st.values[1], minor |-> st.values[2],
              scanned |-> st.scanned, oob |-> st.oob]

---------------------------------------------------------------------------
(* Tracer.Constants and Tracer.KProbes *)

\* findNamespace(pid): the namespace id, or 0 with an error
findNamespace(pid, nsOk, nsId) ==
    IF nsOk THEN [npid |-> nsId, err |-> FALSE] ELSE [npid |-> 0, err |-> TRUE]

\* A Go map is a function on its keys; the nil map is the empty function.
NilMap == << >>

Constants_SkipOnError(systemWide, pid, nsOk, nsId) ==
    IF systemWide THEN NilMap
    ELSE LET ns == findNamespace(pid, nsOk, nsId)
         IN  IF ns.err
             THEN [k \in {"current_pid"} |-> pid]
             ELSE [k \in {"current_pid", "current_pid_ns_id"} |->
                      IF k = "current_pid" THEN pid ELSE ns.npid]

Constants(systemWide, pid, nsOk, nsId) ==
    IF systemWide THEN NilMap
    ELSE LET ns == findNamespace(pid, nsOk, nsId)
             \* the error is logged as a warning; npid is stored either way
         IN  [k \in {"current_pid", "current_pid_ns_id"} |->
                 IF k = "current_pid" THEN pid ELSE ns.npid]

\* A FunctionPrograms value; "nil" is a program that is not set.
Probe(start, end) == [Required |-> TRUE, Start |-> start, End |-> end]

BaseProbes ==
    [n \in {"sys_accept", "sys_accept4", "sock_alloc", "tcp_rcv_established",
            "sys_connect", "tcp_connect"} |->
        CASE n = "sys_accept"          -> Probe("nil", "KretprobeSysAccept4")
          [] n = "sys_accept4"         -> Probe("nil", "KretprobeSysAccept4")
          [] n = "sock_alloc"          -> Probe("nil", "KretprobeSockAlloc")
          [] n = "tcp_rcv_established" -> Probe("KprobeTcpRcvEstablished", "nil")
          [] n = "sys_connect"         -> Probe("nil", "KretprobeSysConnect")
          [] n = "tcp_connect"         -> Probe("KprobeTcpConnect", "nil")]

ExitProbes ==
    [n \in {"sys_exit", "sys_exit_group"} |-> Probe("KprobeSysExit", "nil")]

KProbes_AlwaysExit(systemWide) ==
    [n \in DOMAIN BaseProbes \cup DOMAIN ExitProbes |->
        IF n \in DOMAIN BaseProbes THEN BaseProbes[n] ELSE ExitProbes[n]]

KProbes(systemWide) ==
    IF systemWide
    THEN [n \in DOMAIN BaseProbes \cup DOMAIN ExitProbes |->
             IF n \in DOMAIN BaseProbes THEN BaseProbes[n] ELSE ExitProbes[n]]
    ELSE BaseProbes

---------------------------------------------------------------------------
(* The LRU cache activePids (hashicorp/golang-lru): a list of entries, the  *)
(* most recently used first; every method runs under the cache's own lock.  *)

CachePids(cache) == {cache[i].pid : i \in 1..Len(cache)}

CacheIndex(cache, k) == CHOOSE i \in 1..Len(cache) : cache[i].pid = k

CacheValue(cache, k) == cache[CacheIndex(cache, k)].name

Without(s, i) == SubSeq(s, 1, i - 1) \o SubSeq(s, i + 1, Len(s))

\* Get without the move to the front (what Peek does)
lruGet_NoTouch(cache, k) ==
    IF k \in CachePids(cache)
    THEN [ok |-> TRUE, value |-> CacheValue(cache, k), cache |-> cache]
    ELSE [ok |-> FALSE, value |-> << >>, cache |-> cache]

\* activePids.Get(k): the value and whether it is cached; a hit makes the
\* entry the most recently used
lruGet(cache, k) ==
    IF k \in CachePids(cache)
    THEN LET i == CacheIndex(cache, k)
         IN  [ok |-> TRUE, value |-> cache[i].name,
              cache |-> <<cache[i]>> \o Without(cache, i)]
    ELSE [ok |-> FALSE, value |-> << >>, cache |-> cache]

\* activePids.Add(k, v): an existing entry is updated and moved to the
\* front; a new one is put at the front and, past the size, the oldest
\* entry is removed
lruAdd(cache, k, v) ==
    IF k \in CachePids(cache)
    THEN <<[pid |-> k, name |-> v]>> \o Without(cache, CacheIndex(cache, k))
    ELSE LET grown == <<[pid |-> k, name |-> v]>> \o cache
         IN  IF Len(grown) > CacheSize
             THEN SubSeq(grown, 1, Len(grown) - 1)
             ELSE grown

\* history: pid k has just been resolved
Touch(order, k) ==
    <<k>> \o SelectSeq(order, LAMBDA x : x # k)

---------------------------------------------------------------------------
(* The raw sample and binary.Read into a BPFHTTPInfo *)

\* binary.Size(BPFHTTPInfo): ConnInfo{S_addr, D_addr}, Pid, Buf
EventSize == IPv6len + IPv6len + PidSize + BufLen

ZeroEvent ==
    [S_addr |-> Pad(<< >>, IPv6len), D_addr |-> Pad(<< >>, IPv6len),
     Pid |-> 0, Buf |-> Pad(<< >>, BufLen)]

ZeroResult ==
    [BPFHTTPInfo |-> ZeroEvent, Method |-> << >>, URL |-> << >>,
     Comm |-> << >>, Host |-> << >>, Peer |-> << >>]

\* what the kernel side writes for one event
RawEvent(saddr, daddr, pid, buf) ==
    Pad(saddr, IPv6len) \o Pad(daddr, IPv6len)
        \o PutLittleEndian(pid, PidSize) \o Pad(buf, BufLen)

\* The fields are filled from the first bytes that are there, the rest zero.
decodeEvent(raw) ==
    LET b == Pad(raw, EventSize)
    IN  [S_addr |-> SubSeq(b, 1, IPv6len),
         D_addr |-> SubSeq(b, IPv6len + 1, 2 * IPv6len),
         Pid    |-> LittleEndian(SubSeq(b, 2 * IPv6len + 1, 2 * IPv6len + PidSize)),
         Buf    |-> SubSeq(b, 2 * IPv6len + PidSize + 1, EventSize)]

\* a read that accepts a short sample and leaves the missing bytes zero
binaryRead_Lenient(raw) ==
    [err |-> "nil", event |-> decodeEvent(raw)]

\* binary.Read(bytes.NewBuffer(raw), binary.LittleEndian, &event): io.ReadFull
\* of EventSize bytes; on an error the event is left as it was (zero)
binaryRead(raw) ==
    IF Len(raw) >= EventSize
    THEN [err |-> "nil", event |-> decodeEvent(raw)]
    ELSE [err |-> IF Len(raw) = 0 THEN "EOF" ELSE "unexpected EOF",
          event |-> ZeroEvent]

---------------------------------------------------------------------------
(* The environment: processes and the kernel-side exit probes *)

NoProcess == [alive |-> FALSE, comm |-> << >>]

NoSnapshot == [present |-> FALSE, name |-> Pad(<< >>, CommLen)]

ProcAlive(pid) == pid \in DOMAIN procs /\ procs[pid].alive

DeadEntry(pid) == IF pid \in DOMAIN deadPids THEN deadPids[pid] ELSE NoSnapshot

\* comm names processes may have: "a" and "b"
CommNames == {<<97>>, <<98>>}

\* A process ends. With the exit probes attached (system-wide mode) the
\* kernel side may store its name in DeadPids.
Exit(pid, recorded) ==
    /\ ProcAlive(pid)
    /\ recorded => SystemWide
    /\ procs' = [procs EXCEPT ![pid] = NoProcess]
    /\ deadPids' = IF recorded
                   THEN [deadPids EXCEPT ![pid] =
                            [present |-> TRUE, name |-> Pad(procs[pid].comm, CommLen)]]
                   ELSE deadPids
    /\ UNCHANGED <<SystemWide, activePids, th, useOrder, returned, last>>

\* A process starts under a pid that is free.
Spawn(pid, comm) ==
    /\ pid \in DOMAIN procs
    /\ ~procs[pid].alive
    /\ procs' = [procs EXCEPT ![pid] = [alive |-> TRUE, comm |-> comm]]
    /\ UNCHANGED <<SystemWide, activePids, deadPids, th, useOrder, returned, last>>

\* A process changes its comm (exec, prctl).
Exec(pid, comm) ==
    /\ ProcAlive(pid)
    /\ procs[pid].comm # comm
    /\ procs' = [procs EXCEPT ![pid] = [alive |-> TRUE, comm |-> comm]]
    /\ UNCHANGED <<SystemWide, activePids, deadPids, th, useOrder, returned, last>>

---------------------------------------------------------------------------
(* One goroutine in toRequestTrace, step by step. Every access to the       *)
(* cache, to /proc and to DeadPids is one step: the process table can       *)
(* change, and another goroutine can run, between any two of them.          *)
(*                                                                         *)
(* Locals: sample (record.RawSample), result and err (what is returned),    *)
(* pid, name and ret (serviceName's pid, name and return value), discard    *)
(* (the caller of commNameOfDeadPid drops its result). History, for the    *)
(* properties only: hit, nStat, nRead, nDead (calls made), deadFound (what  *)
(* the DeadPids lookup found), cache0 (the cache when the call began),      *)
(* expect (the names returned for the pid before the resolve began).        *)

Idle ==
    [pc |-> "idle", sample |-> << >>, result |-> ZeroResult, err |-> "nil",
     pid |-> 0, name |-> << >>, ret |-> << >>, discard |-> FALSE,
     called |-> FALSE, hit |-> FALSE, nStat |-> 0, nRead |-> 0, nDead |-> 0,
     deadFound |-> NoSnapshot, cache0 |-> << >>, expect |-> {}]

ReturnedFor(pid) == IF pid \in DOMAIN returned THEN returned[pid] ELSE {}

\* toRequestTrace up to the call of serviceName, which is never made
\* conditional on the mode
toRequestTrace_AlwaysResolve(t, sample) ==
    /\ th[t].pc = "idle"
    /\ LET rd == binaryRead(sample)
           hi == hostInfo(rd.event)
           result == [ZeroResult EXCEPT !.BPFHTTPInfo = rd.event,
                                        !.Host = hi.target, !.Peer = hi.source,
                                        !.URL = url(rd.event.Buf),
                                        !.Method = method(rd.event.Buf)]
       IN  th' = [th EXCEPT ![t] =
                IF rd.err # "nil"
                THEN [Idle EXCEPT !.pc = "done", !.sample = sample,
                                  !.err = rd.err, !.cache0 = activePids]
                ELSE [Idle EXCEPT !.pc = "Get", !.sample = sample,
                                  !.result = result, !.pid = rd.event.Pid,
                                  !.called = TRUE, !.cache0 = activePids,
                                  !.expect = ReturnedFor(rd.event.Pid)]]
    /\ UNCHANGED <<SystemWide, activePids, procs, deadPids, useOrder, returned, last>>

\* toRequestTrace, lines 148-164: binary.Read, the derived fields, and the
\* call of serviceName in system-wide mode
toRequestTrace(t, sample) ==
    /\ th[t].pc = "idle"
    /\ LET rd == binaryRead(sample)
           hi == hostInfo(rd.event)
           result == [ZeroResult EXCEPT !.BPFHTTPInfo = rd.event,
                                        !.Host = hi.target, !.Peer = hi.source,
                                        !.URL = url(rd.event.Buf),
                                        !.Method = method(rd.event.Buf)]
       IN  th' = [th EXCEPT ![t] =
                IF rd.err # "nil"
                THEN [Idle EXCEPT !.pc = "done", !.sample = sample,
                                  !.err = rd.err, !.cache0 = activePids]
                ELSE IF SystemWide
                THEN [Idle EXCEPT !.pc = "Get", !.sample = sample,
                                  !.result = result, !.pid = rd.event.Pid,
                                  !.called = TRUE, !.cache0 = activePids,
                                  !.expect = ReturnedFor(rd.event.Pid)]
                ELSE [Idle EXCEPT !.pc = "done", !.sample = sample,
                                  !.result = result, !.cache0 = activePids]]
    /\ UNCHANGED <<SystemWide, activePids, procs, deadPids, useOrder, returned, last>>

\* serviceName that ignores what Get found
serviceNameGet_IgnoreHit(t) ==
    /\ th[t].pc = "Get"
    /\ th' = [th EXCEPT ![t].pc = "Stat"]
    /\ UNCHANGED <<SystemWide, activePids, procs, deadPids, useOrder, returned, last>>

\* serviceName, lines 238-241: activePids.Get(pid)
serviceNameGet(t) ==
    /\ th[t].pc = "Get"
    /\ LET g == lruGet(activePids, th[t].pid)
       IN  /\ activePids' = g.cache
           /\ IF g.ok
              THEN /\ th' = [th EXCEPT ![t].pc = "Ret", ![t].ret = g.value,
                                       ![t].hit = TRUE]
                   /\ useOrder' = Touch(useOrder, th[t].pid)
              ELSE /\ th' = [th EXCEPT ![t].pc = "Stat"]
                   /\ useOrder' = useOrder
    /\ UNCHANGED <<SystemWide, procs, deadPids, returned, last>>

\* commName, lines 223-227: os.Stat of /proc/<pid>/comm. The only error
\* modelled is the one of a process that is gone (os.IsNotExist).
commNameStat(t) ==
    /\ th[t].pc = "Stat"
    /\ th' = [th EXCEPT ![t].pc = IF ProcAlive(th[t].pid) THEN "Read" ELSE "DeadLookup",
                        ![t].discard = FALSE,
                        ![t].nStat = @ + 1]
    /\ UNCHANGED <<SystemWide, activePids, procs, deadPids, useOrder, returned, last>>

\* commName, lines 229-234: os.ReadFile of /proc/<pid>/comm. On an error
\* name stays nil; commNameOfDeadPid is called and its result dropped.
commNameRead(t) ==
    /\ th[t].pc = "Read"
    /\ IF ProcAlive(th[t].pid)
       THEN th' = [th EXCEPT ![t].pc = "Add",
                             ![t].name = TrimSpace(procs[th[t].pid].comm \o <<NL>>),
                             ![t].nRead = @ + 1]
       ELSE th' = [th EXCEPT ![t].pc = "DeadLookup",
                             ![t].name = TrimSpace(<< >>),
                             ![t].discard = TRUE,
                             ![t].nRead = @ + 1]
    /\ UNCHANGED <<SystemWide, activePids, procs, deadPids, useOrder, returned, last>>

\* commNameOfDeadPid, lines 212-220: DeadPids.Lookup(pid, &name) and cstr
commNameOfDeadPid(t) ==
    /\ th[t].pc = "DeadLookup"
    /\ LET e     == DeadEntry(th[t].pid)
           found == IF e.present THEN cstr(e.name) ELSE << >>
       IN  th' = [th EXCEPT ![t].pc = "Add",
                            ![t].name = IF th[t].discard THEN th[t].name ELSE found,
                            ![t].deadFound = e,
                            ![t].nDead = @ + 1]
    /\ UNCHANGED <<SystemWide, activePids, procs, deadPids, useOrder, returned, last>>

\* serviceName, lines 243-245: activePids.Add(pid, name); return name
serviceNameAdd(t) ==
    /\ th[t].pc = "Add"
    /\ activePids' = lruAdd(activePids, th[t].pid, th[t].name)
    /\ useOrder' = Touch(useOrder, th[t].pid)
    /\ th' = [th EXCEPT ![t].pc = "Ret", ![t].ret = th[t].name]
    /\ UNCHANGED <<SystemWide, procs, deadPids, returned, last>>

\* toRequestTrace, lines 164-167: result.Comm = the name serviceName returned
toRequestTraceComm(t) ==
    /\ th[t].pc = "Ret"
    /\ th' = [th EXCEPT ![t].pc = "done", ![t].result.Comm = th[t].ret]
    /\ returned' = [returned EXCEPT ![th[t].pid] = @ \cup {th[t].ret}]
    /\ UNCHANGED <<SystemWide, activePids, procs, deadPids, useOrder, last>>

\* The caller (ForwardRingbuf) takes the record and reads the next one.
Forward(t) ==
    /\ th[t].pc = "done"
    /\ th' = [th EXCEPT ![t] = Idle]
    /\ UNCHANGED <<SystemWide, activePids, procs, deadPids, useOrder, returned, last>>

---------------------------------------------------------------------------
(* Inputs *)

Pids == 1..NPids

SrcAddr == <<10, 0, 0, 1>>

DstAddr == <<10, 0, 0, 2>>

\* "G / H", and "G" with no space at all
GoodBuf == <<71, SP, 47, SP, 72>>

NoSpaceBuf == <<71>>

SampleLens == {0, 1, EventSize - 1, EventSize, EventSize + 1}

\* samples of every length in SampleLens: cut short, exact, or one byte more
Samples ==
    {Take(RawEvent(SrcAddr, DstAddr, p, b) \o <<NUL>>, n) :
        p \in Pids, b \in {GoodBuf, NoSpaceBuf}, n \in SampleLens}

FullSample(p) == RawEvent(SrcAddr, DstAddr, p, GoodBuf)

\* bytes a buffer is made of: NUL, space, '/', 'G'
BufBytes == {NUL, SP, 47, 71}

\* characters of a release: NUL, '-', '.', '1', '5'
RelChars == {NUL, 45, 46, 49, 53}

---------------------------------------------------------------------------
(* Spec: one consumer decoding samples one after the other, while           *)
(* processes start, rename themselves and exit.                             *)

Init ==
    /\ SystemWide \in BOOLEAN
    /\ activePids = << >>
    /\ procs = [p \in Pids |-> [alive |-> TRUE, comm |-> <<97>>]]
    /\ deadPids = [p \in Pids |-> NoSnapshot]
    /\ th = [t \in {1} |-> Idle]
    /\ useOrder = << >>
    /\ returned = [p \in Pids |-> {}]
    /\ last = [op |-> "none", state |-> "none"]

Decode == \E s \in Samples : toRequestTrace(1, s)

Get == serviceNameGet(1)

Stat == commNameStat(1)

Read == commNameRead(1)

DeadLookup == commNameOfDeadPid(1)

Add == serviceNameAdd(1)

SetComm == toRequestTraceComm(1)

Emit == Forward(1)

ProcessExit == \E p \in Pids, rec \in BOOLEAN : Exit(p, rec)

\* a pid that is free again is taken by a process of the same name
ProcessSpawn == \E p \in Pids : Spawn(p, <<97>>)

Next ==
    \/ Decode
    \/ Get
    \/ Stat
    \/ Read
    \/ DeadLookup
    \/ Add
    \/ SetComm
    \/ Emit
    \/ ProcessExit
    \/ ProcessSpawn

Spec == Init /\ [][Next]_vars

---------------------------------------------------------------------------
(* SpecPure: the functions that share no state, each called on every input *)
(* of a bounded set.                                                        *)

\* the calls to make: a function and its arguments
PureCalls ==
    {[op |-> "parse", state |-> "call", Buf |-> buf] :
        buf \in [1..BufLen -> BufBytes]}
    \cup {[op |-> "KernelVersion", state |-> "call", unameOk |-> ok, release |-> rel] :
        ok \in BOOLEAN, rel \in [1..RelLen -> RelChars]}
    \cup {[op |-> "Constants", state |-> "call", pid |-> pid, nsOk |-> nsOk, nsId |-> nsId] :
        pid \in Pids, nsOk \in BOOLEAN, nsId \in {7, 8}}
    \cup {[op |-> "KProbes", state |-> "call"]}

InitPure ==
    /\ SystemWide \in BOOLEAN
    /\ activePids = << >>
    /\ procs = [p \in Pids |-> [alive |-> TRUE, comm |-> <<97>>]]
    /\ deadPids = [p \in Pids |-> NoSnapshot]
    /\ th = [t \in {1} |-> Idle]
    /\ useOrder = << >>
    /\ returned = [p \in Pids |-> {}]
    /\ last \in PureCalls

Called(op) == last.state = "call" /\ last.op = op

Returned(op) == last.state = "return" /\ last.op = op

ParseCall ==
    /\ Called("parse")
    /\ last' = [op |-> "parse", state |-> "return", Buf |-> last.Buf,
                URL |-> url(last.Buf), Method |-> method(last.Buf)]
    /\ UNCHANGED <<SystemWide, activePids, procs, deadPids, th, useOrder, returned>>

KernelVersionCall ==
    /\ Called("KernelVersion")
    /\ last' = [op |-> "KernelVersion", state |-> "return",
                unameOk |-> last.unameOk, release |-> last.release,
                out |-> KernelVersion(last.unameOk, last.release)]
    /\ UNCHANGED <<SystemWide, activePids, procs, deadPids, th, useOrder, returned>>

ConstantsCall ==
    /\ Called("Constants")
    /\ last' = [op |-> "Constants", state |-> "return", pid |-> last.pid,
                nsOk |-> last.nsOk, nsId |-> last.nsId,
                out |-> Constants(SystemWide, last.pid, last.nsOk, last.nsId)]
    /\ UNCHANGED <<SystemWide, activePids, procs, deadPids, th, useOrder, returned>>

KProbesCall ==
    /\ Called("KProbes")
    /\ last' = [op |-> "KProbes", state |-> "return", out |-> KProbes(SystemWide)]
    /\ UNCHANGED <<SystemWide, activePids, procs, deadPids, th, useOrder, returned>>

NextPure ==
    \/ ParseCall
    \/ KernelVersionCall
    \/ ConstantsCall
    \/ KProbesCall

SpecPure == InitPure /\ [][NextPure]_vars

---------------------------------------------------------------------------
(* SpecLRU: one consumer in system-wide mode resolving enough pids to fill  *)
(* the cache: pids 1..WarmLen in order, then pid 1 or a fresh pid.          *)

LRUPids == 1..(WarmLen + NFresh)

InitLRU ==
    /\ SystemWide = TRUE
    /\ activePids = << >>
    /\ procs = [p \in LRUPids |-> [alive |-> TRUE, comm |-> <<97>>]]
    /\ deadPids = [p \in LRUPids |-> NoSnapshot]
    /\ th = [t \in {1} |-> Idle]
    /\ useOrder = << >>
    /\ returned = [p \in LRUPids |-> {}]
    /\ last = [op |-> "none", state |-> "none"]

DecodeLRU ==
    \E p \in LRUPids :
        /\ IF Len(activePids) < WarmLen
           THEN p = Len(activePids) + 1
           ELSE p = 1 \/ p > WarmLen
        /\ toRequestTrace(1, FullSample(p))

NextLRU ==
    \/ DecodeLRU
    \/ Get
    \/ Stat
    \/ Read
    \/ Add
    \/ SetComm
    \/ Emit

SpecLRU == InitLRU /\ [][NextLRU]_vars

---------------------------------------------------------------------------
(* SpecConc: two goroutines decode events of the same pid and share the     *)
(* cache, while the process renames itself, exits and is replaced.          *)

Threads == {1, 2}

ConcPids == {1}

InitConc ==
    /\ SystemWide = TRUE
    /\ activePids = << >>
    /\ procs = [p \in ConcPids |-> [alive |-> TRUE, comm |-> <<97>>]]
    /\ deadPids = [p \in ConcPids |-> NoSnapshot]
    /\ th = [t \in Threads |-> Idle]
    /\ useOrder = << >>
    /\ returned = [p \in ConcPids |-> {}]
    /\ last = [op |-> "none", state |-> "none"]

DecodeConc == \E t \in Threads, p \in ConcPids : toRequestTrace(t, FullSample(p))

GetConc == \E t \in Threads : serviceNameGet(t)

StatConc == \E t \in Threads : commNameStat(t)

ReadConc == \E t \in Threads : commNameRead(t)

DeadLookupConc == \E t \in Threads : commNameOfDeadPid(t)

AddConc == \E t \in Threads : serviceNameAdd(t)

SetCommConc == \E t \in Threads : toRequestTraceComm(t)

EmitConc == \E t \in Threads : Forward(t)

ExitConc == \E p \in ConcPids, rec \in BOOLEAN : Exit(p, rec)

SpawnConc == \E p \in ConcPids, c \in CommNames : Spawn(p, c)

ExecConc == \E p \in ConcPids, c \in CommNames : Exec(p, c)

NextConc ==
    \/ DecodeConc
    \/ GetConc
    \/ StatConc
    \/ ReadConc
    \/ DeadLookupConc
    \/ AddConc
    \/ SetCommConc
    \/ EmitConc
    \/ ExitConc
    \/ SpawnConc
    \/ ExecConc

SpecConc == InitConc /\ [][NextConc]_vars

---------------------------------------------------------------------------
(* Properties *)

Min(S) == CHOOSE x \in S : \A y \in S : x <= y

RECURSIVE Decimal(_)
Decimal(s) ==
    IF s = << >> THEN 0
    ELSE 10 * Decimal(SubSeq(s, 1, Len(s) - 1)) + (s[Len(s)] - 48)

Running == {t \in DOMAIN th : th[t].pc # "idle"}

\* C1: toRequestTrace succeeds for every sample of at least EventSize
\* bytes; for every shorter sample, the empty one included, it returns an
\* error and a record with Method, URL, Host, Peer and Comm all empty,
\* without calling serviceName and without writing to activePids.
C1_DecodeBySize ==
    \A t \in Running :
        LET c == th[t] IN
        /\ Len(c.sample) >= EventSize => c.err = "nil"
        /\ Len(c.sample) < EventSize =>
              /\ c.pc = "done"
              /\ c.err # "nil"
              /\ c.result.Method = << >> /\ c.result.URL = << >>
              /\ c.result.Host = << >> /\ c.result.Peer = << >>
              /\ c.result.Comm = << >>
              /\ ~c.called
              /\ activePids = c.cache0

\* C1 witness: in system-wide mode a sample one byte short has been refused.
C1_Witness ==
    /\ SystemWide
    /\ th[1].pc = "done"
    /\ Len(th[1].sample) = EventSize - 1
    /\ th[1].err = "unexpected EOF"

\* C2: for every content of the buffer: with no space in it Method and URL
\* are empty; otherwise Method is the bytes before the first space and URL
\* the bytes strictly between the first and the second space, or empty
\* when there is no second space; no slice goes outside the buffer.
C2_MethodAndURL ==
    Returned("parse") =>
        LET buf    == last.Buf
            spaces == {i \in 1..Len(buf) : buf[i] = SP}
        IN  /\ last.URL # Panic
            /\ last.Method # Panic
            /\ spaces = {} => last.Method = << >> /\ last.URL = << >>
            /\ spaces # {} =>
                  LET first == Min(spaces)
                      more  == spaces \ {first}
                  IN  /\ last.Method = SubSeq(buf, 1, first - 1)
                      /\ last.URL = IF more = {} THEN << >>
                                    ELSE SubSeq(buf, first + 1, Min(more) - 1)

\* C2 witness: a buffer with a zero byte in its first position, a method
\* and a URL that are both found.
C2_Witness ==
    /\ Returned("parse")
    /\ last.Buf[1] = NUL
    /\ last.Method # << >>
    /\ last.URL # << >>

\* C3: when commName finds the process gone and DeadPids holds a snapshot
\* for the pid, serviceName returns the snapshot's name and caches it, in
\* every interleaving with the exit of the process.
C3_DeadNameResolved ==
    \A t \in Running :
        LET c == th[t] IN
        (c.pc \in {"Ret", "done"} /\ c.called /\ ~c.hit
            /\ c.nDead > 0 /\ c.deadFound.present) =>
            /\ c.ret = cstr(c.deadFound.name)
            /\ c.pid \in CachePids(activePids)
            /\ CacheValue(activePids, c.pid) = c.ret

\* C4 (state part): a call that hit the cache has made no Stat, no
\* ReadFile and no DeadPids lookup.
C4_HitMadeNoCalls ==
    \A t \in Running :
        th[t].hit =>
            /\ th[t].pc \in {"Ret", "done"}
            /\ th[t].nStat = 0 /\ th[t].nRead = 0 /\ th[t].nDead = 0

\* C4 (step part): serviceName on a cached pid returns the cached name at
\* once and leaves both lookup sources alone.
C4_HitStep ==
    \A t \in DOMAIN th :
        (th[t].pc = "Get" /\ th'[t].pc # "Get"
            /\ th[t].pid \in CachePids(activePids)) =>
            /\ th'[t].pc = "Ret"
            /\ th'[t].ret = CacheValue(activePids, th[t].pid)
            /\ procs' = procs
            /\ deadPids' = deadPids

\* C4: in a sequence of serviceName calls, a call for a cached pid returns
\* the cached name without reading the live process table or DeadPids,
\* also when the cached name is "" and a source has a name by now.
C4_CachedNameNoIO == [](C4_HitMadeNoCalls) /\ [][C4_HitStep]_vars

\* C4 witness: "" was cached for a pid, the pid has a live process with a
\* name now, and serviceName has returned "" from the cache.
C4_Witness ==
    /\ th[1].pc = "Ret"
    /\ th[1].hit
    /\ th[1].ret = << >>
    /\ ProcAlive(th[1].pid)

PosIn(order, k) == CHOOSE i \in 1..Len(order) : order[i] = k

\* the cached pid whose most recent resolve is the oldest
Oldest(P) == CHOOSE p \in P : \A q \in P : PosIn(useOrder, q) <= PosIn(useOrder, p)

\* C5 (state part): at most CacheSize distinct pids are cached.
C5_Bounded ==
    /\ Len(activePids) <= CacheSize
    /\ Cardinality(CachePids(activePids)) = Len(activePids)

\* C5 (step part): the cached pids change only by a new pid coming in; into
\* a full cache it replaces the least recently resolved pid and no other.
C5_EvictStep ==
    LET P == CachePids(activePids)
        Q == CachePids(activePids')
    IN  /\ \/ Q = P
           \/ \E p \in Q \ P : Len(activePids) < CacheSize /\ Q = P \cup {p}
           \/ \E p \in Q \ P : /\ Len(activePids) = CacheSize
                               /\ Q = (P \ {Oldest(P)}) \cup {p}
        /\ \A t \in DOMAIN th :
              (th[t].pc = "Add" /\ th'[t].pc = "Ret") => th[t].pid \in Q

\* C5: the cache holds at most 64 distinct pids; resolving a pid that is
\* not in a full cache evicts exactly one entry, the one whose most recent
\* resolve (hit or insertion) is the oldest; nothing else removes entries.
C5_LRUOf64 == [](C5_Bounded) /\ [][C5_EvictStep]_vars

\* C5 witness: the cache is full, pid 1 (resolved again after the warm-up)
\* is still cached and pid 2, resolved after pid 1 at first, is evicted.
C5_Witness ==
    /\ Len(activePids) = CacheSize
    /\ 1 \in CachePids(activePids)
    /\ 2 \notin CachePids(activePids)

\* C6 (state part): a decoded record has Comm = the name serviceName
\* returned in system-wide mode, and Comm = "" with no call of serviceName
\* and an untouched cache in single-target mode.
C6_CommByMode ==
    /\ ~SystemWide => activePids = << >> /\ \A t \in DOMAIN th : ~th[t].called
    /\ \A t \in Running :
          (th[t].pc = "done" /\ th[t].err = "nil") =>
              IF SystemWide
              THEN th[t].called /\ th[t].result.Comm = th[t].ret
              ELSE th[t].result.Comm = << >>

\* C6 (step part): no step of toRequestTrace changes a lookup source.
C6_DecodeStep ==
    th' # th => procs' = procs /\ deadPids' = deadPids

\* C6: decoding sets Comm only in system-wide mode, to what serviceName
\* returns for the record's pid; in single-target mode Comm is "",
\* serviceName is not called, and the cache and the two lookup sources are
\* left as they are.
C6_CommOnlySystemWide == [](C6_CommByMode) /\ [][C6_DecodeStep]_vars

\* C6 witness: single-target mode, a record decoded without error for a
\* pid whose process is alive, and Comm is empty.
C6_Witness ==
    /\ ~SystemWide
    /\ th[1].pc = "done"
    /\ th[1].err = "nil"
    /\ ProcAlive(th[1].result.BPFHTTPInfo.Pid)
    /\ th[1].result.Comm = << >>

\* C7: Constants returns no constants in system-wide mode; in single-target
\* mode exactly current_pid (the target's pid) and current_pid_ns_id, also
\* when the namespace lookup fails.
C7_ConstantsKeys ==
    Returned("Constants") =>
        IF SystemWide
        THEN DOMAIN last.out = {}
        ELSE /\ DOMAIN last.out = {"current_pid", "current_pid_ns_id"}
             /\ last.out["current_pid"] = last.pid
             /\ last.nsOk => last.out["current_pid_ns_id"] = last.nsId

\* C7 witness: single-target mode, the namespace lookup failed, and the
\* key current_pid_ns_id is there.
C7_Witness ==
    /\ Returned("Constants")
    /\ ~SystemWide
    /\ ~last.nsOk
    /\ "current_pid_ns_id" \in DOMAIN last.out

\* C8: KProbes declares sys_exit and sys_exit_group exactly in system-wide
\* mode, the six base probes in both modes, and every declared probe is
\* required and has a program for its entry or its exit.
C8_ProbeTable ==
    Returned("KProbes") =>
        LET k == last.out IN
        /\ "sys_exit" \in DOMAIN k <=> SystemWide
        /\ "sys_exit_group" \in DOMAIN k <=> SystemWide
        /\ {"sys_accept", "sys_accept4", "sock_alloc", "tcp_rcv_established",
            "sys_connect", "tcp_connect"} \subseteq DOMAIN k
        /\ \A n \in DOMAIN k :
              k[n].Required /\ (k[n].Start # "nil" \/ k[n].End # "nil")

\* C8 witness: the table of single-target mode, without the exit probes.
C8_Witness ==
    /\ Returned("KProbes")
    /\ ~SystemWide
    /\ Cardinality(DOMAIN last.out) = 6

\* C9: once serviceName has returned a name for a pid, every serviceName
\* call for that pid that starts afterwards returns the same name (the
\* entry is never evicted in SpecConc), whatever the interleaving.
C9_StableName ==
    \A t \in Running :
        (th[t].pc \in {"Ret", "done"} /\ th[t].called) =>
            \A n \in th[t].expect : th[t].ret = n

\* a release of the form N.N and then a character that is no digit:
\* digits 1..i, '.', digits i+2..j, a non-digit at j+1
VersionForm(rel, i, j) ==
    /\ 1 <= i /\ i + 2 <= j /\ j + 1 <= Len(rel)
    /\ \A k \in 1..i : IsDigit(rel[k])
    /\ rel[i + 1] = 46
    /\ \A k \in (i + 2)..j : IsDigit(rel[k])
    /\ ~IsDigit(rel[j + 1])

====
